---- MODULE Spec2Model ----
(***************************************************************************)
(* KCSD3D, the 3D kernel Current Source Density estimator of               *)
(* pykCSD/KCSD3D.py, as a state machine.                                   *)
(*                                                                         *)
(* The estimator object is the variable self: the object's attribute       *)
(* dictionary, a function from the names of the attributes assigned so far *)
(* to their values.  A method is an operator from self and its arguments   *)
(* to the record [self, exc, value]: the attribute dictionary at the       *)
(* method's exit, the exception it raised (NoExc when it returned) and the *)
(* value it returned.                                                      *)
(*                                                                         *)
(* Numbers.  Coordinates, potentials and matrix entries are integers.  A   *)
(* number that need not be whole (a grid spacing, a regularisation         *)
(* parameter, a weight) is an exact fraction <<numerator, denominator>>,   *)
(* so floating-point rounding is left out: a matrix is singular exactly    *)
(* when its determinant is 0.                                              *)
(***************************************************************************)
EXTENDS Integers, Sequences, FiniteSets, TLC

VARIABLES self, pc, ret

vars == <<self, pc, ret>>

-----------------------------------------------------------------------------
(* Bounds of the model.                                                    *)

\* electrode coordinates lie in 0..MaxCoord on every axis
MaxCoord == 1
\* at most MaxElec electrodes and MaxElec sampled potentials
MaxElec == 4
\* a params dictionary holds at most MaxKeys keys
MaxKeys == 2
\* candidate lists of choose_lambda hold at most MaxCand values
MaxCand == 2
\* choose_lambda runs with n_iter in 0..MaxIter
MaxIter == 2

(* Constants of the program.                                               *)

\* validate_parameters: "Number of electrodes must be at least 4!"
MinElectrodes == 4
\* set_parameters: params.get('n_sources', 300)
DefaultNSources == 300
\* set_parameters: 0.01*(self.xmax - self.xmin), as the fraction 1/100
GdDefaultDen == 100
\* set_parameters: self.__dist_table_density = 100
DistTableDensity == 100
\* set_parameters: [1.0 / 2**n for n in xrange(0, 20)]
NLambdas == 20
\* source placement needs a 3D lattice, 2 x 2 x 2 sources at the least
MinSources == 8

-----------------------------------------------------------------------------
(* Arithmetic helpers.                                                     *)

Max(S) == CHOOSE m \in S : \A x \in S : x <= m

Min(S) == CHOOSE m \in S : \A x \in S : m <= x

Abs(x) == IF x < 0 THEN -x ELSE x

RECURSIVE Pow2(_)
Pow2(n) == IF n = 0 THEN 1 ELSE 2 * Pow2(n - 1)

\* floor of the square root
ISqrt(n) == CHOOSE r \in 0..n : r * r <= n /\ (r + 1) * (r + 1) > n

\* floor of the cube root
ICbrt(n) == CHOOSE r \in 0..n : r * r * r <= n /\ (r + 1) * (r + 1) * (r + 1) > n

RECURSIVE SumSeq(_)
SumSeq(s) == IF s = <<>> THEN 0 ELSE Head(s) + SumSeq(Tail(s))

RECURSIVE Gcd(_, _)
Gcd(a, b) == IF b = 0 THEN Abs(a) ELSE Gcd(b, a % b)

\* the fraction n/d (d # 0) in lowest terms with a positive denominator
Frac(n, d) ==
    LET g == Gcd(Abs(n), Abs(d))
        s == IF d < 0 THEN -1 ELSE 1
    IN  <<(s * n) \div g, (s * d) \div g>>

FracLess(a, b) == a[1] * b[2] < b[1] * a[2]

-----------------------------------------------------------------------------
(* Exceptions.                                                             *)

Exc(type, msg) == [type |-> type, msg |-> msg]

NoExc == Exc("none", "")

ExcCountMismatch ==
    Exc("Exception", "Number of measured potentials is not equal to electrode number!")

ExcTooFewElectrodes == Exc("Exception", "Number of electrodes must be at least 4!")

ExcSourceType == Exc("Exception", "Incorrect source type!")

\* int(nan) inside numpy.linspace
ExcNaN == Exc("ValueError", "cannot convert float NaN to integer")

ExcBroadcast == Exc("ValueError", "operands could not be broadcast together")

ExcReshape == Exc("ValueError", "total size of new array must be unchanged")

ExcEmptyMin == Exc("ValueError", "min() arg is an empty sequence")

ExcIndex == Exc("IndexError", "index 0 is out of bounds for axis 0 with size 0")

ExcSingular == Exc("LinAlgError", "Singular matrix")

ExcAttribute(name) == Exc("AttributeError", name)

ExcConfiguration == Exc("ConfigurationError", "source placement")

ExcFoldCount == Exc("InvalidFoldCountError", "n_folds")

\* the result of a method: attribute dictionary, exception, returned value,
\* and the method's local variables at its exit
ResultL(s, e, v, l) == [self |-> s, exc |-> e, value |-> v, locals |-> l]

Result(s, e, v) == ResultL(s, e, v, <<>>)

\* the value of a call that returned None or raised
None == <<>>

\* the attribute dictionary of an object no attribute was assigned to
NoAttrs == <<>>

Has(s, name) == name \in DOMAIN s

\* attribute assignment: the attributes of d are set in s
Assign(s, d) == d @@ s

-----------------------------------------------------------------------------
(* numpy helpers.                                                          *)

\* elec_pos[:, k-1]: the coordinates of all electrodes on axis k, as a set
Column(elec_pos, k) == {elec_pos[i][k] : i \in 1..Len(elec_pos)}

\* dict.get(key, default)
Get(params, key, default) == IF key \in DOMAIN params THEN params[key] ELSE default

\* numpy.linspace(start, stop, num): num evenly spaced samples, the first at
\* start and, when num > 1, the last at stop.  The array is held by these
\* three numbers; LinPoint gives its elements.
linspace(start, stop, num) == [start |-> start, stop |-> stop, num |-> num]

\* element k (from 0) of a linspace array, a fraction
LinPoint(lin, k) ==
    IF lin.num = 1
    THEN Frac(lin.start, 1)
    ELSE Frac(lin.start * (lin.num - 1) + k * (lin.stop - lin.start), lin.num - 1)

LinFirst(lin) == LinPoint(lin, 0)

LinLast(lin) == LinPoint(lin, lin.num - 1)

\* numpy.min and numpy.max of a linspace array
LinMin(lin) == IF lin.num = 1 THEN lin.start ELSE Min({lin.start, lin.stop})

LinMax(lin) == IF lin.num = 1 THEN lin.start ELSE Max({lin.start, lin.stop})

\* The number of samples set_parameters asks linspace for on an axis of the
\* given extent and spacing gd = <<n, d>>: int(extent / gd + 1).  0/0 is nan
\* and x/0 is inf for numpy floats; int() raises on both.
GridCount(extent, gd) == (extent * gd[2]) \div gd[1] + 1

GridCountExc(extent, gd) ==
    IF gd[1] # 0 THEN NoExc
    ELSE IF extent = 0 THEN ExcNaN
    ELSE Exc("OverflowError", "cannot convert float infinity to integer")

\* numpy.meshgrid(lin_x, lin_y, lin_z) with the default indexing 'xy': three
\* arrays of shape (len(lin_y), len(lin_x), len(lin_z)); array number k
\* repeats the coordinates of its axis.
meshgrid(lin_x, lin_y, lin_z) ==
    LET shape == <<lin_y.num, lin_x.num, lin_z.num>>
    IN  <<[shape |-> shape, lin |-> lin_x],
          [shape |-> shape, lin |-> lin_y],
          [shape |-> shape, lin |-> lin_z]>>

-----------------------------------------------------------------------------
(* Source placement and the minimum electrode distance: bodies that the    *)
(* source file leaves out, modelled from the design description.           *)

DistSq(p, q) ==
    (p[1] - q[1]) * (p[1] - q[1]) + (p[2] - q[2]) * (p[2] - q[2])
        + (p[3] - q[3]) * (p[3] - q[3])

\* the smallest distance between two electrodes
calc_min_dist(elec_pos) ==
    LET n == Len(elec_pos)
        pairs == {q \in (1..n) \X (1..n) : q[1] < q[2]}
    IN  ISqrt(Min({DistSq(elec_pos[q[1]], elec_pos[q[2]]) : q \in pairs}))

\* A near-cubic lattice of sources over the volume of the grid, widened by
\* the margins; a volume of zero extent on an axis, or fewer than 8 sources,
\* is a configuration error.
make_src_3D(X, Y, Z, n_src, ext_x, ext_y, ext_z, R_init) ==
    IF \/ n_src < MinSources
       \/ LinMax(X.lin) = LinMin(X.lin)
       \/ LinMax(Y.lin) = LinMin(Y.lin)
       \/ LinMax(Z.lin) = LinMin(Z.lin)
    THEN [exc |-> ExcConfiguration]
    ELSE LET m == ICbrt(n_src)
             shape == <<m, m, m>>
             Lat(G, ext) ==
                 [shape |-> shape,
                  lin |-> linspace(LinMin(G.lin) - ext, LinMax(G.lin) + ext, m)]
         IN  [exc |-> NoExc,
              X_src |-> Lat(X, ext_x), Y_src |-> Lat(Y, ext_y), Z_src |-> Lat(Z, ext_z),
              nx |-> m, ny |-> m, nz |-> m,
              R |-> R_init]

-----------------------------------------------------------------------------
(* Matrices: a matrix is the sequence of its rows.  A matrix or vector of  *)
(* fractions is [num |-> integers, den |-> common denominator].            *)

Rows(M) == Len(M)

Cols(M) == IF Len(M) = 0 THEN 0 ELSE Len(M[1])

transpose(M) == [j \in 1..Cols(M) |-> [i \in 1..Rows(M) |-> M[i][j]]]

\* numpy.dot of two matrices
dot(A, B) ==
    [i \in 1..Rows(A) |->
        [j \in 1..Cols(B) |-> SumSeq([k \in 1..Cols(A) |-> A[i][k] * B[k][j]])]]

\* numpy.dot of a matrix and a vector
dotvec(A, v) == [i \in 1..Rows(A) |-> SumSeq([k \in 1..Len(v) |-> A[i][k] * v[k]])]

identity(n) == [i \in 1..n |-> [j \in 1..n |-> IF i = j THEN 1 ELSE 0]]

Minor(M, i, j) ==
    [r \in 1..(Len(M) - 1) |->
        [c \in 1..(Len(M) - 1) |->
            M[IF r < i THEN r ELSE r + 1][IF c < j THEN c ELSE c + 1]]]

Sign(k) == IF k % 2 = 0 THEN 1 ELSE -1

RECURSIVE Det(_)
Det(M) ==
    IF Len(M) = 1 THEN M[1][1]
    ELSE SumSeq([j \in 1..Len(M) |-> Sign(1 + j) * M[1][j] * Det(Minor(M, 1, j))])

Adjugate(M) ==
    IF Len(M) = 1 THEN <<<<1>>>>
    ELSE [i \in 1..Len(M) |-> [j \in 1..Len(M) |-> Sign(i + j) * Det(Minor(M, j, i))]]

\* a stale regularisation: the kernel matrix alone, lambda left at its default 0
RegularizedStale(k_pot, lambd) == [num |-> k_pot, den |-> 1]

\* self.k_pot + self.lambd * identity(self.k_pot.shape[0]), lambd = <<p, q>>
Regularized(k_pot, lambd) ==
    [num |-> [i \in 1..Len(k_pot) |->
                 [j \in 1..Len(k_pot) |->
                     lambd[2] * k_pot[i][j] + (IF i = j THEN lambd[1] ELSE 0)]],
     den |-> lambd[2]]

\* numpy.linalg.inv raises LinAlgError on a singular matrix
Singular(A) == Det(A.num) = 0

\* numpy.linalg.inv(A) of a regular matrix: den * adj(num) / det(num)
inv(A) ==
    LET d == Det(A.num)
        s == IF d < 0 THEN -1 ELSE 1
    IN  [num |-> [i \in 1..Len(A.num) |->
                     [j \in 1..Len(A.num) |-> s * A.den * Adjugate(A.num)[i][j]]],
         den |-> s * d]

\* a vector of fractions in lowest terms
ReduceVec(num, den) ==
    LET RECURSIVE G(_, _)
        G(v, g) == IF v = <<>> THEN g ELSE G(Tail(v), Gcd(g, Abs(Head(v))))
        g == G(num, den)
    IN  [num |-> [i \in 1..Len(num) |-> num[i] \div g], den |-> den \div g]

-----------------------------------------------------------------------------
(* The distance table and the three basis matrices: bodies that the source *)
(* file leaves out.  Their entries depend on a quadrature the design       *)
(* leaves open, so the matrices are taken from a few patterns of the shape *)
(* the design gives them: b_pot_matrix is n_src x N, b_src_matrix and      *)
(* b_interp_pot_matrix are n_grid x n_src.                                 *)

NSrc(s) == s["X_src"].shape[1] * s["X_src"].shape[2] * s["X_src"].shape[3]

NGrid(s) == s["space_X"].shape[1] * s["space_X"].shape[2] * s["space_X"].shape[3]

NElec(s) == Len(s["elec_pos"])

Banded(rows, cols, a, b) ==
    [i \in 1..rows |->
        [j \in 1..cols |->
            IF (i - j) % cols = 0 THEN a ELSE IF (i - j) % cols = 1 THEN b ELSE 0]]

create_dist_table(s) == Assign(s, [dist_table |-> [density |-> s["_KCSD3D__dist_table_density"],
                                                   dist_max |-> s["dist_max"]]])

\* amp is the potential of a basis source at its nearest electrode
calculate_b_pot_matrix(s, amp) ==
    Assign(s, [b_pot_matrix |-> Banded(NSrc(s), NElec(s), amp, 1)])

calculate_b_src_matrix(s) ==
    Assign(s, [b_src_matrix |-> Banded(NGrid(s), NSrc(s), 1, 0)])

calculate_b_interp_pot_matrix(s) ==
    Assign(s, [b_interp_pot_matrix |-> Banded(NGrid(s), NSrc(s), 1, 1)])

\* the steps of calculate_matrices the source file spells out
calc_k_pot(s) ==
    Assign(s, [k_pot |-> dot(transpose(s["b_pot_matrix"]), s["b_pot_matrix"])])

calc_k_interp_cross(s) ==
    Assign(s, [k_interp_cross |-> dot(s["b_src_matrix"], s["b_pot_matrix"])])

calc_interp_pot(s) ==
    Assign(s, [interp_pot |-> dot(s["b_interp_pot_matrix"], s["b_pot_matrix"])])

\* calculate_matrices from its first line to its last
calculate_matrices(s, amp) ==
    calc_interp_pot(calculate_b_interp_pot_matrix(
        calc_k_interp_cross(calculate_b_src_matrix(
            calc_k_pot(calculate_b_pot_matrix(create_dist_table(s), amp))))))

-----------------------------------------------------------------------------
(* Construction.                                                           *)

\* 'source_type' values set_parameters accepts
SourceTypes == {"gaussian", "step"}

\* a set_parameters that takes any 'source_type'
SourceTypeAny(t) == TRUE

SourceTypeOk(t) == t \in SourceTypes

\* a validate_parameters that turns away exactly 4 electrodes too
validate_parameters_off_by_one(elec_pos, sampled_pots) ==
    IF Len(elec_pos) # Len(sampled_pots) THEN ExcCountMismatch
    ELSE IF Len(elec_pos) <= MinElectrodes THEN ExcTooFewElectrodes
    ELSE NoExc

\* the exception validate_parameters raises, NoExc when it returns
validate_parameters(elec_pos, sampled_pots) ==
    IF Len(elec_pos) # Len(sampled_pots) THEN ExcCountMismatch
    ELSE IF Len(elec_pos) < MinElectrodes THEN ExcTooFewElectrodes
    ELSE NoExc

\* A part of a method: it works on the result so far, and does nothing
\* once an exception is raised.
Raised(r) == r.exc # NoExc

\* lines 45-52 of set_parameters: sigma, n_sources and the six bounds
SP_bounds(r, params) ==
    LET elec_pos == r.self["elec_pos"]
    IN  Result(Assign(r.self,
                [sigma |-> Get(params, "sigma", 1),
                 n_sources |-> Get(params, "n_sources", DefaultNSources),
                 xmax |-> Get(params, "x_max", Max(Column(elec_pos, 1))),
                 xmin |-> Get(params, "x_min", Min(Column(elec_pos, 1))),
                 ymax |-> Get(params, "y_max", Max(Column(elec_pos, 2))),
                 ymin |-> Get(params, "y_min", Min(Column(elec_pos, 2))),
                 zmax |-> Get(params, "z_max", Max(Column(elec_pos, 3))),
                 zmin |-> Get(params, "z_min", Min(Column(elec_pos, 3)))]),
               NoExc, None)

\* lines 54-64: lambd, R_init, h, the margins, the spacings, the density
SP_options(r, params) ==
    LET s == r.self
    IN  Result(Assign(s,
                [lambd |-> Get(params, "lambda", <<0, 1>>),
                 R_init |-> Get(params, "R_init", 2 * calc_min_dist(s["elec_pos"])),
                 h |-> Get(params, "h", 1),
                 ext_X |-> Get(params, "ext_X", 0),
                 ext_Y |-> Get(params, "ext_Y", 0),
                 ext_Z |-> Get(params, "ext_Z", 0),
                 gdX |-> Get(params, "gdX", Frac(s["xmax"] - s["xmin"], GdDefaultDen)),
                 gdY |-> Get(params, "gdY", Frac(s["ymax"] - s["ymin"], GdDefaultDen)),
                 gdZ |-> Get(params, "gdZ", Frac(s["zmax"] - s["zmin"], GdDefaultDen)),
                 _KCSD3D__dist_table_density |-> DistTableDensity]),
               NoExc, None)

\* lines 66-74: the basis type and the default candidates
SP_source_type(r, params) ==
    IF "source_type" \in DOMAIN params /\ ~SourceTypeOk(params["source_type"])
    THEN Result(r.self, ExcSourceType, None)
    ELSE Result(Assign(r.self,
                  [source_type |-> Get(params, "source_type", "gaussian"),
                   lambdas |-> [n \in 1..NLambdas |-> <<1, Pow2(n - 1)>>]]),
                NoExc, None)

\* the stop value of the z axis handed to linspace
LinZStop(s) == s["ymax"]

\* the exception of the first linspace call that raises
SP_grid_exc(s) ==
    LET ex == GridCountExc(s["xmax"] - s["xmin"], s["gdX"])
        ey == GridCountExc(s["ymax"] - s["ymin"], s["gdY"])
        ez == GridCountExc(s["zmax"] - s["zmin"], s["gdZ"])
    IN  IF ex # NoExc THEN ex ELSE IF ey # NoExc THEN ey ELSE ez

\* lines 76-79: the grid
SP_grid(r) ==
    LET s == r.self
    IN  IF Raised(r) THEN r
        ELSE IF SP_grid_exc(s) # NoExc THEN Result(s, SP_grid_exc(s), None)
        ELSE LET mesh ==
                   meshgrid(
                     linspace(s["xmin"], s["xmax"],
                              GridCount(s["xmax"] - s["xmin"], s["gdX"])),
                     linspace(s["ymin"], s["ymax"],
                              GridCount(s["ymax"] - s["ymin"], s["gdY"])),
                     linspace(s["zmin"], LinZStop(s),
                              GridCount(s["zmax"] - s["zmin"], s["gdZ"])))
             IN  Result(Assign(s, [space_X |-> mesh[1], space_Y |-> mesh[2],
                                   space_Z |-> mesh[3]]),
                        NoExc, None)

\* lines 81-82: the sources
SP_sources(r) ==
    LET s == r.self
    IN  IF Raised(r) THEN r
        ELSE LET src == make_src_3D(s["space_X"], s["space_Y"], s["space_Z"],
                                    s["n_sources"], s["ext_X"], s["ext_Y"], s["ext_Z"],
                                    s["R_init"])
             IN  IF src.exc # NoExc THEN Result(s, src.exc, None)
                 ELSE Result(Assign(s, [X_src |-> src.X_src, Y_src |-> src.Y_src,
                                        Z_src |-> src.Z_src, R |-> src.R]),
                             NoExc, None)

SrcExtent(s, name) == LinMax(s[name].lin) - LinMin(s[name].lin) + s["R"]

\* lines 84-87; dist_max is kept as its square, Lx**2 + Ly**2 + Lz**2
SP_dist_max(r) ==
    LET s == r.self
    IN  IF Raised(r) THEN r
        ELSE Result(Assign(s, [dist_max |->
                        SrcExtent(s, "X_src") * SrcExtent(s, "X_src")
                        + SrcExtent(s, "Y_src") * SrcExtent(s, "Y_src")
                        + SrcExtent(s, "Z_src") * SrcExtent(s, "Z_src")]),
                    NoExc, None)

set_parameters(s0, params) ==
    SP_dist_max(SP_sources(SP_grid(
        SP_source_type(SP_options(SP_bounds(Result(s0, NoExc, None), params), params),
                       params))))

\* a constructor that goes on to build the matrices
KCSD3D_init_eager(elec_pos, sampled_pots, params) ==
    LET v == validate_parameters(elec_pos, sampled_pots)
        r == set_parameters([elec_pos |-> elec_pos, sampled_pots |-> sampled_pots], params)
    IN  IF v # NoExc THEN Result(NoAttrs, v, None)
        ELSE IF Raised(r) THEN r
        ELSE Result(calculate_matrices(r.self, 2), NoExc, None)

\* KCSD3D.__init__
KCSD3D_init(elec_pos, sampled_pots, params) ==
    LET v == validate_parameters(elec_pos, sampled_pots)
    IN  IF v # NoExc
        THEN Result(NoAttrs, v, None)
        ELSE set_parameters([elec_pos |-> elec_pos, sampled_pots |-> sampled_pots], params)

-----------------------------------------------------------------------------
(* Inputs of construction.                                                 *)

\* n electrodes on corners of a box with sides ex, ey, ez
Layout(ex, ey, ez, n) ==
    SubSeq(<<<<0, 0, 0>>, <<ex, 0, 0>>, <<0, ey, 0>>, <<0, 0, ez>>,
             <<ex, ey, ez>>, <<ex, ey, 0>>, <<ex, 0, ez>>, <<0, ey, ez>>>>, 1, n)

ElecInputs ==
    {Layout(ex, ey, ez, n) : ex \in 0..MaxCoord, ey \in 0..MaxCoord, ez \in 0..MaxCoord,
                             n \in (MinElectrodes - 1)..MaxElec}

\* m potentials 1, 2, 0, 1, ... scaled by k
Pots(m, k) == [i \in 1..m |-> (i % 3) * k]

PotInputs == {Pots(m, 1) : m \in (MinElectrodes - 1)..MaxElec}

BoundKeys == {"x_min", "x_max", "y_min", "y_max", "z_min", "z_max"}

NumKeys == BoundKeys \cup {"n_sources"}

GdKeys == {"gdX", "gdY", "gdZ"}

NumVals(k) ==
    IF k = "n_sources" THEN {MinSources - 1, MinSources}
    ELSE IF k \in {"x_min", "y_min", "z_min"} THEN {-1}
    ELSE {MaxCoord + 1}

GdVals(k) == {<<1, 1>>, <<MaxCoord + 1, 1>>}

LambdaVals(k) == {<<1, 2>>}

TypeVals(k) == {"gaussian", "step", "gauss_lim"}

\* the dictionaries with exactly the keys S; Vals(k) are the values of k
Dicts(S, Vals(_)) ==
    {f \in [S -> UNION {Vals(k) : k \in S}] : \A k \in S : f[k] \in Vals(k)}

\* the params dictionaries with exactly the keys S
ParamDictsOn(S) ==
    {a @@ b @@ c @@ d :
        a \in Dicts(S \cap NumKeys, NumVals),
        b \in Dicts(S \cap GdKeys, GdVals),
        c \in Dicts(S \cap {"lambda"}, LambdaVals),
        d \in Dicts(S \cap {"source_type"}, TypeVals)}

ParamKeys == NumKeys \cup GdKeys \cup {"lambda", "source_type"}

ParamDicts ==
    UNION {ParamDictsOn(S) : S \in {T \in SUBSET ParamKeys : Cardinality(T) <= MaxKeys}}

-----------------------------------------------------------------------------
(* Estimation.                                                             *)

\* output[:] += beta[i]*estimation_table[:,i] adds a column of the given
\* length to an output of the given size: the lengths must agree, or the
\* column must have one element
Broadcasts(size, column) == column = size \/ column = 1

\* beta = dot(k_inv, self.sampled_pots), in lowest terms
Beta(k_inv, sampled_pots) == ReduceVec(dotvec(k_inv.num, sampled_pots), k_inv.den)

\* the loop over the electrodes: output[g] = sum of beta[i]*table[g, i]
Accumulate(size, beta, table, n_elec) ==
    [num |-> [g \in 1..size |->
                 SumSeq([i \in 1..n_elec |->
                            beta.num[i] * table[IF Rows(table) = 1 THEN 1 ELSE g][i]])],
     den |-> beta.den]

estimate_pots(s) ==
    IF ~Has(s, "interp_pot") THEN Result(s, ExcAttribute("interp_pot"), None)
    ELSE IF ~Has(s, "k_pot") THEN Result(s, ExcAttribute("k_pot"), None)
    ELSE LET estimation_table == s["interp_pot"]
             A == Regularized(s["k_pot"], s["lambd"])
         IN  IF Singular(A) THEN Result(s, ExcSingular, None)
             ELSE LET beta == Beta(inv(A), s["sampled_pots"])
                      nx == s["space_X"].shape[1]
                      ny == s["space_X"].shape[2]
                      output == Accumulate(nx * ny, beta, estimation_table, NElec(s))
                      est == [shape |-> <<nx, ny>>, data |-> output]
                  IN  IF ~Broadcasts(nx * ny, Rows(estimation_table))
                      THEN ResultL(s, ExcBroadcast, None, [beta |-> beta])
                      ELSE ResultL(Assign(s, [estimated_pots |-> est]), NoExc, est,
                                   [beta |-> beta])

estimate_csd(s) ==
    IF ~Has(s, "k_interp_cross") THEN Result(s, ExcAttribute("k_interp_cross"), None)
    ELSE IF ~Has(s, "k_pot") THEN Result(s, ExcAttribute("k_pot"), None)
    ELSE LET estimation_table == s["k_interp_cross"]
             A == Regularized(s["k_pot"], s["lambd"])
         IN  IF Singular(A) THEN Result(s, ExcSingular, None)
             ELSE LET beta == Beta(inv(A), s["sampled_pots"])
                      nx == s["space_X"].shape[1]
                      ny == s["space_X"].shape[2]
                      nz == s["space_X"].shape[3]
                      output == Accumulate(nx * ny, beta, estimation_table, NElec(s))
                      est == [shape |-> <<nx, ny, nz>>, data |-> output]
                  IN  IF ~Broadcasts(nx * ny, Rows(estimation_table))
                      THEN ResultL(s, ExcBroadcast, None, [beta |-> beta])
                      ELSE IF nx * ny # nx * ny * nz
                      THEN ResultL(s, ExcReshape, None, [beta |-> beta])
                      ELSE ResultL(Assign(s, [estimated_csd |-> est]), NoExc, est,
                                   [beta |-> beta])

-----------------------------------------------------------------------------
(* Cross-validation.                                                       *)

\* not a number: 0/0
NaN == <<0, 0>>

\* numpy.mean of a sequence of integers; nan for the empty sequence
mean(v) == IF Len(v) = 0 THEN NaN ELSE Frac(SumSeq(v), Len(v))

\* comparisons of floats: every comparison with nan is false
FloatLess(a, b) == a # NaN /\ b # NaN /\ FracLess(a, b)

FloatEq(a, b) == a # NaN /\ b # NaN /\ a = b

\* the builtin min of a non-empty sequence: the first element no later
\* element is less than
RECURSIVE PyMinFrom(_, _)
PyMinFrom(m, v) ==
    IF v = <<>> THEN m
    ELSE PyMinFrom(IF FloatLess(Head(v), m) THEN Head(v) ELSE m, Tail(v))

PyMin(v) == PyMinFrom(Head(v), Tail(v))

\* cv.cross_validation, a module the source file imports: it turns away a
\* fold count below 1 or above the number of electrodes, and otherwise
\* reports the prediction error of this run, err
cross_validation(lambd, sampled_pots, k_pot, n_elec, n_folds, err) ==
    IF n_folds < 1 \/ n_folds > n_elec
    THEN [exc |-> ExcFoldCount, value |-> None]
    ELSE [exc |-> NoExc, value |-> err]

\* lambdas[mask][0] taken from the far end: the last candidate of the mask
PickLast(lambdas, mask) == lambdas[Max(mask)]

\* lambdas[mask][0]: the first candidate of the mask
PickFirst(lambdas, mask) == lambdas[Min(mask)]

\* a choose_lambda that stores the candidate it chose as the configured lambda
SelfWithChosen(s, chosen) == Assign(s, [lambd |-> chosen])

\* the attributes at the return of choose_lambda: it assigns none
SelfAtReturn(s, chosen) == s

\* cv_errors[i][j] is the error cross-validation reports for candidate i in
\* iteration j
choose_lambda(s, lambdas, n_folds, n_iter, cv_errors) ==
    LET n == Len(lambdas)
        zeros == [i \in 1..n |-> <<0, 1>>]
        first == cross_validation(lambdas[1], s["sampled_pots"], s["k_pot"],
                                  NElec(s), n_folds, cv_errors[1][1])
        errors == [i \in 1..n |-> mean(cv_errors[i])]
        mask == {i \in 1..n : FloatEq(errors[i], PyMin(errors))}
    IN  IF n >= 1 /\ n_iter >= 1 /\ ~Has(s, "k_pot")
        THEN ResultL(s, ExcAttribute("k_pot"), None, [errors |-> zeros])
        ELSE IF n >= 1 /\ n_iter >= 1 /\ first.exc # NoExc
        THEN ResultL(s, first.exc, None, [errors |-> zeros])
        ELSE IF n = 0
        THEN ResultL(s, ExcEmptyMin, None, [errors |-> errors])
        ELSE IF mask = {}
        THEN ResultL(s, ExcIndex, None, [errors |-> errors])
        ELSE ResultL(SelfAtReturn(s, PickFirst(lambdas, mask)), NoExc,
                     PickFirst(lambdas, mask), [errors |-> errors])

-----------------------------------------------------------------------------
(* The state machine.                                                      *)

\* the record of the last call: the method, its arguments, the exception it
\* raised, the value it returned and its local variables at its exit
Call(op, args, r) ==
    [op |-> op, args |-> args, exc |-> r.exc, value |-> r.value, locals |-> r.locals]

NoCall == Call("none", <<>>, Result(NoAttrs, NoExc, None))

InitNew == self = NoAttrs /\ pc = "new" /\ ret = NoCall

\* k = KCSD3D(elec_pos, sampled_pots, params)
Construct(E, P, D) ==
    /\ pc = "new"
    /\ \E elec_pos \in E, sampled_pots \in P, params \in D :
         LET r == KCSD3D_init(elec_pos, sampled_pots, params)
         IN  /\ self' = r.self
             /\ ret' = Call("__init__",
                            [elec_pos |-> elec_pos, sampled_pots |-> sampled_pots,
                             params |-> params], r)
             /\ pc' = IF r.exc = NoExc THEN "idle" ELSE "failed"

ConstructAny == Construct(ElecInputs, PotInputs, ParamDicts)

NextNew == ConstructAny

\* construction on its own, over the widest inputs
SpecNew == InitNew /\ [][NextNew]_vars

-----------------------------------------------------------------------------
(* The life of an estimator: calculate_matrices line by line, assignments  *)
(* to lambd, and the public calls.  pc is "idle" between calls and names   *)
(* the next line of calculate_matrices while that method runs.             *)

\* electrodes that span a volume, a grid of spacing 1 and 8 sources
ElecSpanning ==
    {Layout(1, 1, ez, n) : ez \in 1..MaxCoord, n \in MinElectrodes..MaxElec}

PotChoices == {Pots(m, k) : m \in MinElectrodes..MaxElec, k \in 0..1}

GridParams ==
    {[gdX |-> <<1, 1>>, gdY |-> <<1, 1>>, gdZ |-> <<1, 1>>, n_sources |-> MinSources]}

ConstructSpanning == Construct(ElecSpanning, PotChoices, GridParams)

\* the potentials a basis source may have at its nearest electrode
Amps == {1, 2}

InCall(r) == Call("calculate_matrices", <<>>, Result(NoAttrs, NoExc, None))

CM_create_dist_table ==
    /\ pc = "idle"
    /\ self' = create_dist_table(self)
    /\ pc' = "calculate_b_pot_matrix"
    /\ ret' = InCall(ret)

\* the matrix is a function of the geometry: a second call builds the same
CM_calculate_b_pot_matrix ==
    /\ pc = "calculate_b_pot_matrix"
    /\ \E amp \in Amps :
         /\ Has(self, "b_pot_matrix") =>
                self["b_pot_matrix"] = calculate_b_pot_matrix(self, amp)["b_pot_matrix"]
         /\ self' = calculate_b_pot_matrix(self, amp)
    /\ pc' = "k_pot"
    /\ ret' = InCall(ret)

CM_k_pot ==
    /\ pc = "k_pot"
    /\ self' = calc_k_pot(self)
    /\ pc' = "calculate_b_src_matrix"
    /\ ret' = InCall(ret)

CM_calculate_b_src_matrix ==
    /\ pc = "calculate_b_src_matrix"
    /\ self' = calculate_b_src_matrix(self)
    /\ pc' = "k_interp_cross"
    /\ ret' = InCall(ret)

CM_k_interp_cross ==
    /\ pc = "k_interp_cross"
    /\ self' = calc_k_interp_cross(self)
    /\ pc' = "calculate_b_interp_pot_matrix"
    /\ ret' = InCall(ret)

CM_calculate_b_interp_pot_matrix ==
    /\ pc = "calculate_b_interp_pot_matrix"
    /\ self' = calculate_b_interp_pot_matrix(self)
    /\ pc' = "interp_pot"
    /\ ret' = InCall(ret)

CM_interp_pot ==
    /\ pc = "interp_pot"
    /\ self' = calc_interp_pot(self)
    /\ pc' = "idle"
    /\ ret' = InCall(ret)

\* the values the caller gives lambd: 0 and the first default candidates
LambdaChoices == {<<0, 1>>} \cup {<<1, Pow2(n - 1)>> : n \in 1..MaxCand}

\* k.lambd = value
SetLambda ==
    /\ pc = "idle"
    /\ \E value \in LambdaChoices :
         /\ self' = Assign(self, [lambd |-> value])
         /\ ret' = Call("setattr", [name |-> "lambd", value |-> value],
                        Result(NoAttrs, NoExc, None))
    /\ pc' = pc

EstimatePots ==
    /\ pc = "idle"
    /\ LET r == estimate_pots(self)
       IN  self' = r.self /\ ret' = Call("estimate_pots", <<>>, r)
    /\ pc' = pc

EstimateCsd ==
    /\ pc = "idle"
    /\ LET r == estimate_csd(self)
       IN  self' = r.self /\ ret' = Call("estimate_csd", <<>>, r)
    /\ pc' = pc

\* one cross-validation run reports a low or a high error
ErrVals == {0, 1}

\* k.choose_lambda(lambdas, n_folds, n_iter)
ChooseLambda(L, F, I) ==
    /\ pc = "idle"
    /\ \E lambdas \in L, n_folds \in F, n_iter \in I :
         \E cv_errors \in [1..Len(lambdas) -> [1..n_iter -> ErrVals]] :
             LET r == choose_lambda(self, lambdas, n_folds, n_iter, cv_errors)
             IN  /\ self' = r.self
                 /\ ret' = Call("choose_lambda",
                                [lambdas |-> lambdas, n_folds |-> n_folds,
                                 n_iter |-> n_iter, cv_errors |-> cv_errors], r)
    /\ pc' = pc

\* the default candidates 1, 1/2, ... from the first on
DefaultPrefix(n) == [i \in 1..n |-> <<1, Pow2(i - 1)>>]

ChooseDefault == ChooseLambda({<<>>, DefaultPrefix(2)}, {0, 1}, {0, 1})

Next ==
    \/ ConstructSpanning
    \/ CM_create_dist_table
    \/ CM_calculate_b_pot_matrix
    \/ CM_k_pot
    \/ CM_calculate_b_src_matrix
    \/ CM_k_interp_cross
    \/ CM_calculate_b_interp_pot_matrix
    \/ CM_interp_pot
    \/ SetLambda
    \/ EstimatePots
    \/ EstimateCsd
    \/ ChooseDefault

Init == InitNew

Spec == Init /\ [][Next]_vars

-----------------------------------------------------------------------------
(* choose_lambda on its own, on an estimator whose matrices are built.     *)

\* candidate lists of up to MaxCand of the first default candidates
CandVals == {<<1, Pow2(n - 1)>> : n \in 1..MaxCand}

CandLists == UNION {[1..n -> CandVals] : n \in 0..MaxCand}

InitCV ==
    /\ \E sampled_pots \in {Pots(MinElectrodes, 1)}, params \in GridParams, amp \in Amps :
         LET r == KCSD3D_init(Layout(1, 1, 1, MinElectrodes), sampled_pots, params)
         IN  self = calculate_matrices(r.self, amp)
    /\ pc = "idle"
    /\ ret = InCall(NoCall)

ChooseAny ==
    /\ ret.op # "choose_lambda"
    /\ ChooseLambda(CandLists, {0, 1, NElec(self), NElec(self) + 1}, 0..MaxIter)

\* the caller is done with the returned value
Forget ==
    /\ ret.op = "choose_lambda"
    /\ ret' = InCall(ret)
    /\ UNCHANGED <<self, pc>>

NextCV == ChooseAny \/ Forget

SpecCV == InitCV /\ [][NextCV]_vars

-----------------------------------------------------------------------------
(* Properties of construction, checked under SpecNew.                      *)

Constructed == ret.op = "__init__"

ArgN == Len(ret.args.elec_pos)

ArgM == Len(ret.args.sampled_pots)

ValidationErrors == {ExcCountMismatch, ExcTooFewElectrodes}

\* C1: construction with fewer than 4 electrodes, or with a number of
\* potentials other than the number of electrodes, fails with a validation
\* error before any attribute is set; with at least 4 electrodes and as many
\* potentials the validation raises nothing.
C1_ValidationFailsFast ==
    Constructed =>
        /\ (ArgN < 4 \/ ArgN # ArgM) => (ret.exc \in ValidationErrors /\ self = NoAttrs)
        /\ (ArgN >= 4 /\ ArgN = ArgM) => ret.exc \notin ValidationErrors

\* 4 electrodes and 3 potentials: turned away, no attribute set
C1_Witness ==
    /\ Constructed /\ ArgN = 4 /\ ArgM = 3
    /\ ret.exc = ExcCountMismatch /\ self = NoAttrs /\ pc = "failed"

\* the attributes source placement and the matrix work assign
PlacementAttrs ==
    {"X_src", "Y_src", "Z_src", "R", "dist_max", "dist_table", "b_pot_matrix", "k_pot",
     "b_src_matrix", "k_interp_cross", "b_interp_pot_matrix", "interp_pot"}

\* C7: the basis type of a constructed estimator is gaussian or step:
\* gaussian when 'source_type' is not supplied, the supplied value when that
\* is gaussian or step; any other supplied value makes construction fail
\* before source placement and matrix work.
C7_BasisType ==
    Constructed =>
        LET p == ret.args.params
            given == "source_type" \in DOMAIN p
        IN  /\ ret.exc = NoExc =>
                /\ self["source_type"] \in {"gaussian", "step"}
                /\ ~given => self["source_type"] = "gaussian"
                /\ given => self["source_type"] = p["source_type"]
            /\ (given /\ p["source_type"] \notin {"gaussian", "step"}) =>
                /\ ret.exc # NoExc
                /\ pc = "failed"
                /\ DOMAIN self \cap PlacementAttrs = {}

\* an unknown 'source_type' on valid electrodes: "Incorrect source type!"
C7_Witness ==
    /\ Constructed /\ ArgN = 4 /\ ArgM = 4
    /\ "source_type" \in DOMAIN ret.args.params
    /\ ret.args.params["source_type"] = "gauss_lim"
    /\ ret.exc = ExcSourceType
    /\ Has(self, "lambd") /\ ~Has(self, "X_src")

\* the bound the configuration resolves to: the supplied one, else the
\* extreme electrode coordinate on the axis
ResolvedMax(key, k) ==
    IF key \in DOMAIN ret.args.params THEN ret.args.params[key]
    ELSE Max(Column(ret.args.elec_pos, k))

ResolvedMin(key, k) ==
    IF key \in DOMAIN ret.args.params THEN ret.args.params[key]
    ELSE Min(Column(ret.args.elec_pos, k))

ResolvedGd(key, extent) ==
    IF key \in DOMAIN ret.args.params THEN ret.args.params[key] ELSE Frac(extent, 100)

AxisSpans(space, gd, kmin, kmax, kgd, k) ==
    /\ LinFirst(self[space].lin) = Frac(ResolvedMin(kmin, k), 1)
    /\ LinLast(self[space].lin) = Frac(ResolvedMax(kmax, k), 1)
    /\ self[gd] = ResolvedGd(kgd, ResolvedMax(kmax, k) - ResolvedMin(kmin, k))

\* C5: after construction the grid runs, on each of x, y and z, from that
\* axis's resolved minimum to that axis's resolved maximum, a bound not
\* supplied being the extreme electrode coordinate and a spacing not supplied
\* 1% of the extent.
C5_GridSpansVolume ==
    (Constructed /\ ret.exc = NoExc) =>
        /\ AxisSpans("space_X", "gdX", "x_min", "x_max", "gdX", 1)
        /\ AxisSpans("space_Y", "gdY", "y_min", "y_max", "gdY", 2)
        /\ AxisSpans("space_Z", "gdZ", "z_min", "z_max", "gdZ", 3)

ZeroExtent ==
    \/ ResolvedMax("x_max", 1) = ResolvedMin("x_min", 1)
    \/ ResolvedMax("y_max", 2) = ResolvedMin("y_min", 2)
    \/ ResolvedMax("z_max", 3) = ResolvedMin("z_min", 3)

\* C8: a resolved volume of zero extent on an axis makes construction fail
\* with ConfigurationError, and no grid is produced.
C8_ZeroExtentRejected ==
    (/\ Constructed /\ ArgN >= 4 /\ ArgN = ArgM
     /\ Get(ret.args.params, "source_type", "gaussian") \in {"gaussian", "step"}
     /\ ZeroExtent) =>
        /\ ret.exc.type = "ConfigurationError"
        /\ DOMAIN self \cap {"space_X", "space_Y", "space_Z"} = {}

-----------------------------------------------------------------------------
(* Properties of the estimates, checked under Spec.                        *)

Estimated == ret.op \in {"estimate_pots", "estimate_csd"}

HasBeta == "beta" \in DOMAIN ret.locals

\* the kernel of the last estimate: InterpPotKernel or K_interp_cross
KernelOfCall ==
    IF ret.op = "estimate_pots" THEN self["interp_pot"] ELSE self["k_interp_cross"]

\* the field is beta projected through the kernel
IsProjection(field, beta, kernel) ==
    /\ Len(field.data.num) = Len(kernel)
    /\ \A g \in 1..Len(kernel) :
         field.data.num[g] * beta.den
             = field.data.den * SumSeq([i \in 1..Len(beta.num) |-> beta.num[i] * kernel[g][i]])

\* C2: with valid electrodes and the matrices built, estimate_pots and
\* estimate_csd return a field of the grid's 3D shape with one value per grid
\* point, the value at g being the sum over the electrodes of
\* Beta[i] * kernel[g, i].
C2_FieldPerGridPoint ==
    (Estimated /\ Has(self, "interp_pot") /\ HasBeta) =>
        /\ ret.exc = NoExc
        /\ ret.value.shape = self["space_X"].shape
        /\ Len(ret.value.data.num) = NGrid(self)
        /\ IsProjection(ret.value, ret.locals.beta, KernelOfCall)

\* beta solves (K_pot + lambda*I) beta = sampled_pots for lambda = <<p, q>>
SolvesFor(beta, lambd, k_pot, sampled_pots) ==
    \A i \in 1..Len(k_pot) :
        SumSeq([j \in 1..Len(k_pot) |->
                   (lambd[2] * k_pot[i][j] + (IF i = j THEN lambd[1] ELSE 0)) * beta.num[j]])
            = lambd[2] * beta.den * sampled_pots[i]

PublicCalls == {"estimate_pots", "estimate_csd", "choose_lambda"}

Written == {"estimated_pots", "estimated_csd"}

\* C9: estimate_pots, estimate_csd and choose_lambda leave every attribute
\* but the stored estimates as it was, and add no other attribute.
C9_Frame ==
    [][ret'.op \in PublicCalls =>
          /\ \A a \in DOMAIN self \ Written : a \in DOMAIN self' /\ self'[a] = self[a]
          /\ DOMAIN self' \subseteq DOMAIN self \cup Written]_vars

\* choose_lambda returned a candidate that is not the configured lambda
C9_Witness ==
    /\ ret.op = "choose_lambda" /\ ret.exc = NoExc
    /\ Has(self, "interp_pot")
    /\ ret.value # self["lambd"]

MatrixAttrs ==
    {"dist_table", "b_pot_matrix", "k_pot", "b_src_matrix", "k_interp_cross",
     "b_interp_pot_matrix", "interp_pot"}

Before(first, second) == Has(self, second) => Has(self, first)

\* C10: construction builds no matrix; a public call made before
\* calculate_matrices has run to its end fails and returns nothing; and
\* calculate_matrices builds the distance table before the basis matrices and
\* K_pot before the two grid kernels.
C10_MatricesOnlyByCalculate ==
    /\ ret.op = "__init__" => DOMAIN self \cap MatrixAttrs = {}
    /\ (ret.op \in PublicCalls /\ ~Has(self, "interp_pot")) =>
           ret.exc # NoExc /\ ret.value = None
    /\ Before("dist_table", "b_pot_matrix")
    /\ Before("dist_table", "b_src_matrix")
    /\ Before("dist_table", "b_interp_pot_matrix")
    /\ Before("b_pot_matrix", "k_pot")
    /\ Before("k_pot", "k_interp_cross")
    /\ Before("k_pot", "interp_pot")

\* estimate_csd on a freshly constructed estimator
C10_Witness ==
    /\ ret.op = "estimate_csd" /\ pc = "idle"
    /\ DOMAIN self \cap MatrixAttrs = {}
    /\ ret.exc = ExcAttribute("k_interp_cross")

-----------------------------------------------------------------------------
(* Properties of choose_lambda, checked under SpecCV.                      *)

Chose == ret.op = "choose_lambda"

Total(i) == SumSeq(ret.args.cv_errors[i])

Descending(lambdas) ==
    \A i \in 1..(Len(lambdas) - 1) : FracLess(lambdas[i + 1], lambdas[i])

FoldsInRange == ret.args.n_folds >= 1 /\ ret.args.n_folds <= Len(self["elec_pos"])

\* C3: on a non-empty candidate list choose_lambda returns a candidate whose
\* mean error over the n_iter iterations is the least, the first such
\* candidate of the list: the largest of them when the list descends.
C3_FirstMinimiser ==
    (Chose /\ Len(ret.args.lambdas) >= 1 /\ ret.args.n_iter >= 1 /\ FoldsInRange) =>
        /\ ret.exc = NoExc
        /\ \E i \in 1..Len(ret.args.lambdas) :
             /\ ret.value = ret.args.lambdas[i]
             /\ \A j \in 1..Len(ret.args.lambdas) : Total(i) <= Total(j)
             /\ \A j \in 1..(i - 1) : Total(j) > Total(i)
             /\ Descending(ret.args.lambdas) =>
                    \A j \in 1..Len(ret.args.lambdas) :
                        Total(j) = Total(i) => ~FracLess(ret.value, ret.args.lambdas[j])

\* two candidates tie over two iterations; the first one is returned
C3_Witness ==
    /\ Chose /\ ret.exc = NoExc
    /\ Len(ret.args.lambdas) = 2 /\ ret.args.n_iter = 2
    /\ ret.args.lambdas = <<<<1, 1>>, <<1, 2>>>>
    /\ ret.args.cv_errors = <<<<1, 0>>, <<0, 1>>>>
    /\ ret.value = <<1, 1>>

\* C4: choose_lambda with n_folds below 1 or above the number of electrodes
\* fails with InvalidFoldCountError, whatever the candidates and n_iter,
\* before a candidate is evaluated.
C4_BadFoldCountRejected ==
    (Chose /\ ~FoldsInRange) =>
        /\ ret.exc = ExcFoldCount
        /\ \A i \in 1..Len(ret.locals.errors) : ret.locals.errors[i] = <<0, 1>>

====
